---- MODULE Spec2Model ----
(***************************************************************************)
(* Model of the derive_value_object procedural macro: the ValueObject      *)
(* engine of src/src/value_object.rs (validate, get_internal_type, the     *)
(* four generators, generate), the harness of src/src/lib.rs, and the      *)
(* behaviour of the impl blocks the generators emit.                       *)
(*                                                                         *)
(* Encodings.  Option<T> is a sequence of length <= 1 (<<>> is None).      *)
(* A String whose characters matter (serde_crate) is a sequence of         *)
(* one-character strings.  A syn::Type / syn::Path is the sequence of its  *)
(* path segments.  A TokenStream is a sequence of impl blocks.  A          *)
(* Result<_, Error> is a record [tag, val, err] with tag "ok" or "err";    *)
(* tag "panic" is an unwinding panic that escapes the function.            *)
(***************************************************************************)
EXTENDS Integers, Sequences, FiniteSets, TLC

(* ---------------------------- bounds ----------------------------------- *)
MaxFields == 2
MaxGenerics == 1
MaxDecls == 3

(* ---------------------------- vocabulary ------------------------------- *)
None == <<>>
Some(x) == <<x>>
OptBool == {None, Some(TRUE), Some(FALSE)}

unwrap_or(opt, default) == IF opt = None THEN default ELSE opt[1]

Range(s) == {s[i] : i \in 1..Len(s)}

SeqsUpTo(S, n) == UNION {[1..k -> S] : k \in 0..n}

Idents == {"Value"}
Types == {<<"String">>, <<"i32">>, <<"MyCustomType">>, <<"std", "string", "String">>}
GenericParams == {"T"}

(* names of the fields of a braced struct, by position *)
FieldName(i) == <<"value", "second", "third", "fourth", "fifth">>[i]
(* the member name of the i-th field of a tuple struct (0-based index) *)
IndexName(i) == <<"0", "1", "2", "3", "4">>[i]

NamedFields(n) == {[i \in 1..n |-> [name |-> Some(FieldName(i)), ty |-> tys[i]]] : tys \in [1..n -> Types]}
UnnamedFields(n) == {[i \in 1..n |-> [name |-> None, ty |-> tys[i]]] : tys \in [1..n -> Types]}

(* syn::Data with syn::Fields inside the Struct variant *)
Datas ==
    {[kind |-> "Enum", fields |-> "None", list |-> <<>>],
     [kind |-> "Union", fields |-> "None", list |-> <<>>],
     [kind |-> "Struct", fields |-> "Unit", list |-> <<>>]}
    \cup {[kind |-> "Struct", fields |-> "Named", list |-> l] :
            l \in UNION {NamedFields(n) : n \in 0..MaxFields}}
    \cup {[kind |-> "Struct", fields |-> "Unnamed", list |-> l] :
            l \in UNION {UnnamedFields(n) : n \in 0..MaxFields}}

SerdeDefault == <<"s", "e", "r", "d", "e">>
SerdeCrates ==
    {None,
     Some(<<"m", "y">>),
     Some(<<>>),
     Some(<<"a", ":", ":", "b">>)}

ValueObjectAttributes ==
    [error_type : {<<"String">>},
     load_fn : {<<"Value", "new">>},
     serde_derive : OptBool,
     serde_crate : SerdeCrates,
     display_derive : OptBool,
     try_from_derive : OptBool,
     from_str_derive : OptBool]

ValueObject ==
    [ident : Idents,
     attributes : ValueObjectAttributes,
     generics : SeqsUpTo(GenericParams, MaxGenerics),
     struct_internals : Datas]

(* ---------------------------- state ------------------------------------ *)
VARIABLES
    decls,           \* the declarations the compiler hands to the macro
    entry,           \* "derive": lib.rs harness; "generate": ValueObject::generate
    idx,             \* the declaration being expanded
    pc,              \* position inside the current expansion
    serde_token, display_token, try_from_token, from_str_token,
    validated,       \* what validate returned to the harness, if it ran
    last,            \* the generator that ran last and what it returned
    outcome,         \* what the current expansion returned
    outputs,         \* the outcomes of the finished expansions
    call             \* the last use of an emitted impl

vars == <<decls, entry, idx, pc, serde_token, display_token, try_from_token,
          from_str_token, validated, last, outcome, outputs, call>>

locals == <<serde_token, display_token, try_from_token, from_str_token>>

value_object == decls[idx]

(* ---------------------------- results ---------------------------------- *)
Ok(v) == [tag |-> "ok", val |-> v, err |-> <<>>]
Err(e) == [tag |-> "err", val |-> <<>>, err |-> e]
Panic == [tag |-> "panic", val |-> <<>>, err |-> <<>>]
Pending == [tag |-> "none", val |-> <<>>, err |-> <<>>]

(* TokenStream2::new() *)
EmptyTokens == <<>>

(* darling::Error::custom(msg): the message as the pieces format! joins   *)
(* (the quote marks around the interpolated ident are left out)            *)
ErrGenerics(ident) == <<"Generics not allowed in value-object ", ident>>
ErrEnum == <<"Enum struct not supported">>
ErrUnion == <<"Union struct not supported">>
ErrFieldCount == <<"Object value must contain only one field">>
ErrEmpty == <<"Empty structs does not supported">>

(* ---------------------------- get_internal_type ------------------------ *)
get_internal_type(vo) ==
    LET d == vo.struct_internals IN
    IF d.kind = "Enum" THEN Err(ErrEnum)
    ELSE IF d.kind = "Union" THEN Err(ErrUnion)
    ELSE IF d.fields = "Named" THEN
        IF Len(d.list) # 1 THEN Err(ErrFieldCount) ELSE Ok(d.list[1].ty)
    ELSE IF d.fields = "Unnamed" THEN
        IF Len(d.list) # 1 THEN Err(ErrFieldCount) ELSE Ok(d.list[1].ty)
    ELSE Err(ErrEmpty)

(* ---------------------------- validate --------------------------------- *)
(* mutation: the shape is examined before the generics *)
validate_shape_first(v) ==
    LET r == get_internal_type(v) IN
    IF r.tag = "err" THEN r
    ELSE IF v.generics # <<>> THEN Err(ErrGenerics(v.ident))
    ELSE Ok(<<>>)

validate(vo) ==
    IF vo.generics # <<>> THEN Err(ErrGenerics(vo.ident))
    ELSE LET r == get_internal_type(vo) IN
         IF r.tag = "err" THEN r ELSE Ok(<<>>)

(* ---------------------------- identifiers ------------------------------ *)
IdentStart == {"a", "b", "d", "e", "m", "r", "s", "y", "_"}
IdentContinue == IdentStart \cup {"0", "1"}

(* syn::Ident::new accepts exactly the legal identifiers and panics on    *)
(* every other string                                                      *)
IsIdent(s) ==
    /\ Len(s) > 0
    /\ s[1] \in IdentStart
    /\ \A i \in 2..Len(s) : s[i] \in IdentContinue
    /\ s # <<"_">>

(* ---------------------------- emitted impl blocks ---------------------- *)
Step(op, arg) == [op |-> op, arg |-> arg]

Impl(crate, trait, ident, param, assoc, body) ==
    [crate |-> crate, trait |-> trait, for |-> ident, param |-> param,
     assoc |-> assoc, body |-> body]

StdCrate == <<"s", "t", "d">>

(* ---------------------------- generate_serde --------------------------- *)
generate_serde(vo) ==
    LET serde_enable == unwrap_or(vo.attributes.serde_derive, TRUE) IN
    IF ~serde_enable THEN Ok(EmptyTokens)
    ELSE LET serde_crate == unwrap_or(vo.attributes.serde_crate, SerdeDefault) IN
         IF ~IsIdent(serde_crate) THEN Panic
         ELSE LET r == get_internal_type(vo) IN
              IF r.tag = "err" THEN r
              ELSE Ok(<<
                  Impl(serde_crate, <<"de", "Deserialize">>, vo.ident, <<>>, <<>>,
                       <<Step("inner_deserialize", r.val),
                         Step("load_fn_map_err", vo.attributes.load_fn),
                         Step("return_ok_value", <<>>)>>),
                  Impl(serde_crate, <<"Serialize">>, vo.ident, <<>>, <<>>,
                       <<Step("member_serialize", <<"0">>)>>) >>)

(* ---------------------------- generate_display ------------------------- *)
(* mutation: a process-wide guard lets the Display impl be emitted only   *)
(* by the first expansion that finishes                                    *)
generate_display_once(v) ==
    IF unwrap_or(v.attributes.display_derive, TRUE) /\ outputs = <<>>
    THEN Ok(<<
        Impl(StdCrate, <<"fmt", "Display">>, v.ident, <<>>, <<>>,
             <<Step("member_write", <<"0">>)>>) >>)
    ELSE Ok(EmptyTokens)

generate_display(vo) ==
    LET display_derive_enabled == unwrap_or(vo.attributes.display_derive, TRUE) IN
    IF ~display_derive_enabled THEN Ok(EmptyTokens)
    ELSE Ok(<<
        Impl(StdCrate, <<"fmt", "Display">>, vo.ident, <<>>, <<>>,
             <<Step("member_write", <<"0">>)>>) >>)

(* ---------------------------- generate_try_from ------------------------ *)
(* mutation: try_from wraps the value itself instead of calling load_fn *)
generate_try_from_unchecked(v) ==
    LET r == get_internal_type(v) IN
    IF ~unwrap_or(v.attributes.try_from_derive, TRUE) THEN Ok(EmptyTokens)
    ELSE IF r.tag = "err" THEN r
    ELSE Ok(<<
        Impl(StdCrate, <<"convert", "TryFrom">>, v.ident, r.val,
             v.attributes.error_type,
             <<Step("construct", <<>>),
               Step("return_ok_value", <<>>)>>) >>)

generate_try_from(vo) ==
    LET try_from_derive_enabled == unwrap_or(vo.attributes.try_from_derive, TRUE) IN
    IF ~try_from_derive_enabled THEN Ok(EmptyTokens)
    ELSE LET r == get_internal_type(vo) IN
         IF r.tag = "err" THEN r
         ELSE Ok(<<
             Impl(StdCrate, <<"convert", "TryFrom">>, vo.ident, r.val,
                  vo.attributes.error_type,
                  <<Step("load_fn_try", vo.attributes.load_fn),
                    Step("return_ok_value", <<>>)>>) >>)

(* ---------------------------- generate_from_str ------------------------ *)
FROM_STR_DEFAULT_TYPES ==
    <<"bool", "char",
      "f32", "f64",
      "i8", "i16", "i32", "i64", "i128", "isize",
      "u8", "u16", "u32", "u64", "u128", "usize",
      "String">>

(* the Display of ty.to_token_stream(): the tokens of the path, its       *)
(* segments separated by the :: punctuation                                *)
(* mutation: only the last segment of the path is rendered *)
to_token_stream_last_segment(t) == IF t = <<>> THEN t ELSE <<t[Len(t)]>>

RECURSIVE to_token_stream(_)
to_token_stream(ty) ==
    IF Len(ty) <= 1 THEN ty
    ELSE <<Head(ty), "::">> \o to_token_stream(Tail(ty))

generate_from_str(vo) ==
    LET r == get_internal_type(vo) IN
    IF r.tag = "err" THEN r
    ELSE LET internal_type_str == to_token_stream(r.val)
             is_default_type ==
                 \E i \in 1..Len(FROM_STR_DEFAULT_TYPES) :
                     internal_type_str = <<FROM_STR_DEFAULT_TYPES[i]>>
             from_str_derive_enable ==
                 unwrap_or(vo.attributes.from_str_derive, is_default_type)
         IN
         IF ~from_str_derive_enable THEN Ok(EmptyTokens)
         ELSE Ok(<<
             Impl(StdCrate, <<"str", "FromStr">>, vo.ident, <<>>,
                  vo.attributes.error_type,
                  <<Step("inner_from_str", r.val),
                    Step("load_fn_try", vo.attributes.load_fn),
                    Step("return_ok_value", <<>>)>>) >>)

(* the quote! of generate: the four streams, spliced in this order *)
quote(serde_tok, display_tok, try_from_tok, from_str_tok) ==
    serde_tok \o display_tok \o try_from_tok \o from_str_tok

(* ---------------------------- the emitted code, when it is used -------- *)
(* the members rustc finds on the declared struct: field names for a      *)
(* braced struct, 0-based indices for a tuple struct                       *)
Members(vo) ==
    LET d == vo.struct_internals IN
    IF d.kind # "Struct" THEN {}
    ELSE IF d.fields = "Named" THEN {d.list[i].name[1] : i \in 1..Len(d.list)}
    ELSE IF d.fields = "Unnamed" THEN {IndexName(i) : i \in 1..Len(d.list)}
    ELSE {}

CallState(value, loaded, out, member) ==
    [value |-> value, loaded |-> loaded, out |-> out, member |-> member]

(* one statement of an emitted fn body; out # "running" once it returned *)
ExecStep(vo, st, cs, inner_ok, load_ok) ==
    IF st.op \in {"inner_deserialize", "inner_from_str"} THEN
        IF inner_ok THEN CallState("inner", cs.loaded, "running", cs.member)
        ELSE CallState("none", cs.loaded, "failure", cs.member)
    ELSE IF st.op \in {"load_fn_map_err", "load_fn_try"} THEN
        IF load_ok THEN CallState("instance", TRUE, "running", cs.member)
        ELSE CallState("none", cs.loaded, "failure", cs.member)
    ELSE IF st.op = "construct" THEN
        CallState("instance", cs.loaded, "running", cs.member)
    ELSE IF st.op = "return_ok_value" THEN
        CallState(cs.value, cs.loaded, cs.value, cs.member)
    ELSE IF st.arg[1] \in Members(vo) THEN
        CallState(cs.value, cs.loaded, "delegated", st.arg)
    ELSE CallState(cs.value, cs.loaded, "no_such_field", st.arg)

RECURSIVE ExecBody(_, _, _, _, _)
ExecBody(vo, body, cs, inner_ok, load_ok) ==
    IF body = <<>> \/ cs.out # "running" THEN cs
    ELSE ExecBody(vo, Tail(body), ExecStep(vo, Head(body), cs, inner_ok, load_ok),
                  inner_ok, load_ok)

(* a call of the one fn of an emitted impl: try_from receives the inner   *)
(* value as its argument, the others start from a deserializer, a &str    *)
(* or &self                                                                *)
ExecImpl(vo, impl, inner_ok, load_ok) ==
    ExecBody(vo, impl.body,
             CallState(IF impl.param # <<>> THEN "inner" ELSE "none",
                       FALSE, "running", <<>>),
             inner_ok, load_ok)

NoCall ==
    [decl |-> 0, trait |-> <<>>, inner_ok |-> FALSE, load_ok |-> FALSE,
     out |-> "none", loaded |-> FALSE, member |-> <<>>]

(* ---------------------------- the expansion of one declaration -------- *)
NoGenerator == [gen |-> "none", out |-> Pending]

Start(e) == IF e = "derive" THEN "validate" ELSE "serde"

InitCommon ==
    /\ entry \in {"derive", "generate"}
    /\ idx = 1
    /\ pc = Start(entry)
    /\ serde_token = EmptyTokens
    /\ display_token = EmptyTokens
    /\ try_from_token = EmptyTokens
    /\ from_str_token = EmptyTokens
    /\ validated = Pending
    /\ last = NoGenerator
    /\ outcome = Pending
    /\ outputs = <<>>
    /\ call = NoCall

Init ==
    /\ decls \in [1..1 -> ValueObject]
    /\ InitCommon

(* lib.rs: if let Err(error) = value_object.validate() { return ... } *)
Validate ==
    /\ pc = "validate"
    /\ LET r == validate(value_object) IN
       IF r.tag = "err"
       THEN /\ outcome' = r
            /\ pc' = "done"
       ELSE /\ outcome' = outcome
            /\ pc' = "serde"
    /\ validated' = validate(value_object)
    /\ UNCHANGED <<decls, entry, idx, locals, last, outputs, call>>

(* mutation: a failed generator is skipped and generate carries on *)
Generator_lenient(at, name, r, next) ==
    /\ pc = at
    /\ last' = [gen |-> name, out |-> r]
    /\ pc' = next
    /\ outcome' = outcome

(* one let x = self.generate_xxx()?; line of generate *)
Generator(at, name, r, next) ==
    /\ pc = at
    /\ last' = [gen |-> name, out |-> r]
    /\ IF r.tag = "ok"
       THEN /\ pc' = next
            /\ outcome' = outcome
       ELSE /\ pc' = "done"
            /\ outcome' = r

GenSerde ==
    /\ LET r == generate_serde(value_object) IN
       /\ Generator("serde", "serde", r, "display")
       /\ serde_token' = r.val
    /\ UNCHANGED <<decls, entry, idx, display_token, try_from_token,
                   from_str_token, validated, outputs, call>>

GenDisplay ==
    /\ LET r == generate_display(value_object) IN
       /\ Generator("display", "display", r, "try_from")
       /\ display_token' = r.val
    /\ UNCHANGED <<decls, entry, idx, serde_token, try_from_token,
                   from_str_token, validated, outputs, call>>

GenTryFrom ==
    /\ LET r == generate_try_from(value_object) IN
       /\ Generator("try_from", "try_from", r, "from_str")
       /\ try_from_token' = r.val
    /\ UNCHANGED <<decls, entry, idx, serde_token, display_token,
                   from_str_token, validated, outputs, call>>

GenFromStr ==
    /\ LET r == generate_from_str(value_object) IN
       /\ Generator("from_str", "from_str", r, "quote")
       /\ from_str_token' = r.val
    /\ UNCHANGED <<decls, entry, idx, serde_token, display_token,
                   try_from_token, validated, outputs, call>>

(* let result = quote! { ... }; return Ok(result); *)
Quote ==
    /\ pc = "quote"
    /\ outcome' = Ok(quote(serde_token, display_token, try_from_token, from_str_token))
    /\ pc' = "done"
    /\ UNCHANGED <<decls, entry, idx, locals, validated, last, outputs, call>>

(* the expansion returns: its locals are dropped, its outcome goes to the *)
(* compiler, and the next declaration, if any, is expanded afresh          *)
Return ==
    /\ pc = "done"
    /\ outputs' = Append(outputs, outcome)
    /\ serde_token' = EmptyTokens
    /\ display_token' = EmptyTokens
    /\ try_from_token' = EmptyTokens
    /\ from_str_token' = EmptyTokens
    /\ validated' = Pending
    /\ last' = NoGenerator
    /\ outcome' = Pending
    /\ IF idx < Len(decls)
       THEN /\ idx' = idx + 1
            /\ pc' = Start(entry)
       ELSE /\ idx' = idx
            /\ pc' = "idle"
    /\ UNCHANGED <<decls, entry, call>>

(* the program that contains the expansion uses one of the emitted impls; *)
(* the inner type's own deserialize / from_str and the user's load_fn may *)
(* each succeed or fail                                                    *)
UseImpl ==
    /\ pc = "idle"
    /\ \E i \in 1..Len(outputs) :
         /\ outputs[i].tag = "ok"
         /\ \E k \in 1..Len(outputs[i].val), inner_ok \in BOOLEAN, load_ok \in BOOLEAN :
              LET impl == outputs[i].val[k]
                  cs == ExecImpl(decls[i], impl, inner_ok, load_ok)
              IN call' = [decl |-> i, trait |-> impl.trait,
                          inner_ok |-> inner_ok, load_ok |-> load_ok,
                          out |-> cs.out, loaded |-> cs.loaded,
                          member |-> cs.member]
    /\ UNCHANGED <<decls, entry, idx, pc, locals, validated, last, outcome, outputs>>

Next ==
    \/ Validate
    \/ GenSerde
    \/ GenDisplay
    \/ GenTryFrom
    \/ GenFromStr
    \/ Quote
    \/ Return
    \/ UseImpl

Spec == Init /\ [][Next]_vars

(* the compiler expands MaxDecls declarations one after the other; the    *)
(* declarations are drawn from a small set so that the same declaration   *)
(* occurs more than once in a run                                          *)
DetDecls ==
    [ident : Idents,
     attributes : [error_type : {<<"String">>},
                   load_fn : {<<"Value", "new">>},
                   serde_derive : {None},
                   serde_crate : {None, Some(<<>>)},
                   display_derive : {None},
                   try_from_derive : {None},
                   from_str_derive : {None}],
     generics : {<<>>},
     struct_internals :
        {[kind |-> "Enum", fields |-> "None", list |-> <<>>],
         [kind |-> "Struct", fields |-> "Unnamed",
          list |-> <<[name |-> None, ty |-> <<"String">>]>>],
         [kind |-> "Struct", fields |-> "Named",
          list |-> <<[name |-> Some(FieldName(1)), ty |-> <<"MyCustomType">>]>>]}]

InitDet ==
    /\ decls \in [1..MaxDecls -> DetDecls]
    /\ InitCommon

SpecDet == InitDet /\ [][Next]_vars

TypeOK ==
    /\ pc \in {"validate", "serde", "display", "try_from", "from_str", "quote", "done", "idle"}
    /\ idx \in 1..Len(decls)
    /\ outcome.tag \in {"none", "ok", "err", "panic"}

(* ======================= properties ==================================== *)
(* vocabulary of the specification *)
SingleFieldStruct(v) ==
    /\ v.struct_internals.kind = "Struct"
    /\ v.struct_internals.fields \in {"Named", "Unnamed"}
    /\ Len(v.struct_internals.list) = 1

Eligible(v) == v.generics = <<>> /\ SingleFieldStruct(v)

InnerType(v) == v.struct_internals.list[1].ty

PrimitiveNameSet ==
    {"bool", "char", "f32", "f64",
     "i8", "i16", "i32", "i64", "i128", "isize",
     "u8", "u16", "u32", "u64", "u128", "usize",
     "String"}

FlagOn(flag) == flag \in {None, Some(TRUE)}

ParseOn(v) ==
    \/ v.attributes.from_str_derive = Some(TRUE)
    \/ /\ v.attributes.from_str_derive = None
       /\ Len(InnerType(v)) = 1
       /\ InnerType(v)[1] \in PrimitiveNameSet

TraitName(impl) == impl.trait[Len(impl.trait)]
Traits(ts) == [i \in 1..Len(ts) |-> TraitName(ts[i])]

(* the impls of the enabled capabilities, in the order serialization,     *)
(* display, conversion, parse; the serialization unit is the decode impl  *)
(* followed by the encode impl                                             *)
ExpectedTraits(v) ==
    (IF FlagOn(v.attributes.serde_derive) THEN <<"Deserialize", "Serialize">> ELSE <<>>)
    \o (IF FlagOn(v.attributes.display_derive) THEN <<"Display">> ELSE <<>>)
    \o (IF FlagOn(v.attributes.try_from_derive) THEN <<"TryFrom">> ELSE <<>>)
    \o (IF ParseOn(v) THEN <<"FromStr">> ELSE <<>>)

ErrorKind(e) ==
    IF e = ErrEnum THEN "UnsupportedShape(enum)"
    ELSE IF e = ErrUnion THEN "UnsupportedShape(union)"
    ELSE IF e = ErrEmpty THEN "EmptyShape"
    ELSE IF e = ErrFieldCount THEN "FieldCount"
    ELSE IF e # <<>> /\ e[1] = ErrGenerics("")[1] THEN "GenericsNotAllowed"
    ELSE "other"

(* the rules of validate, in the order the specification lists them *)
ExpectedKind(v) ==
    IF v.generics # <<>> THEN "GenericsNotAllowed"
    ELSE IF v.struct_internals.kind = "Enum" THEN "UnsupportedShape(enum)"
    ELSE IF v.struct_internals.kind = "Union" THEN "UnsupportedShape(union)"
    ELSE IF v.struct_internals.fields = "Unit" THEN "EmptyShape"
    ELSE IF Len(v.struct_internals.list) # 1 THEN "FieldCount"
    ELSE "success"

(* the decimal text of a field count *)
CountText(n) == IndexName(n + 1)

(* C1: for every eligible descriptor and every combination of the four    *)
(* capability flags, generate succeeds and returns exactly the impls of   *)
(* the enabled capabilities, each once, in the order serialization,       *)
(* display, conversion, parse.                                             *)
C1_Claim ==
    (pc = "done" /\ Eligible(value_object))
        => /\ outcome.tag = "ok"
           /\ Traits(outcome.val) = ExpectedTraits(value_object)

(* C2: for a single-field struct, generate_from_str succeeds and returns  *)
(* the parse unit iff from_str_derive is true, or it is unset and the     *)
(* rendered name of the inner type is one of the 17 primitive names.      *)
C2_ParseDefault ==
    (last.gen = "from_str" /\ SingleFieldStruct(value_object))
        => /\ last.out.tag = "ok"
           /\ ("FromStr" \in Range(Traits(last.out.val))) <=> ParseOn(value_object)
           /\ Len(last.out.val) <= 1

C2_Witness ==
    /\ last.gen = "from_str"
    /\ Eligible(value_object)
    /\ value_object.attributes.from_str_derive = None
    /\ InnerType(value_object) = <<"i32">>
    /\ Traits(last.out.val) = <<"FromStr">>

(* C3: validate applies its rules in order and the first violation wins:  *)
(* generics, then enum, union, unit struct, field count; it succeeds      *)
(* exactly when no rule applies.                                           *)
C3_ValidateOrder ==
    validated.tag # "none"
        => IF ExpectedKind(value_object) = "success"
           THEN validated.tag = "ok"
           ELSE /\ validated.tag = "err"
                /\ ErrorKind(validated.err) = ExpectedKind(value_object)

C3_Witness ==
    /\ validated.tag = "err"
    /\ value_object.generics # <<>>
    /\ value_object.struct_internals.kind = "Enum"
    /\ ErrorKind(validated.err) = "GenericsNotAllowed"

(* C4: every error validate returns carries the name of the descriptor in *)
(* its message, and a FieldCount error also reports the number of fields. *)
C4_Claim ==
    validated.tag = "err"
        => /\ value_object.ident \in Range(validated.err)
           /\ ErrorKind(validated.err) = "FieldCount"
                => CountText(Len(value_object.struct_internals.list))
                       \in Range(validated.err)

(* C5: decode, conversion and parse return a wrapper instance only as the *)
(* result of a successful load_fn call; when load_fn fails, or the inner  *)
(* value cannot be decoded or parsed, they return a failure.               *)
C5_LoadFnGuards ==
    (call.out # "none" /\ call.trait[Len(call.trait)] \in {"Deserialize", "TryFrom", "FromStr"})
        => LET reads_inner == call.trait[Len(call.trait)] \in {"Deserialize", "FromStr"}
               succeeds == call.load_ok /\ (reads_inner => call.inner_ok)
           IN /\ succeeds => (call.out = "instance" /\ call.loaded)
              /\ ~succeeds => call.out = "failure"

C5_Witness ==
    /\ call.trait = <<"str", "FromStr">>
    /\ call.out = "instance"
    /\ call.loaded

(* C6: generation is all-or-nothing: a finished expansion holds either    *)
(* the complete concatenation of the four generators' units or no unit at *)
(* all; a descriptor validate rejects runs no generator, and a generator  *)
(* failure discards the units of the generators before it.                 *)
C6_AllOrNothing ==
    pc = "done"
        => /\ outcome.tag \in {"ok", "err", "panic"}
           /\ outcome.tag = "ok"
                => /\ generate_serde(value_object).tag = "ok"
                   /\ generate_display(value_object).tag = "ok"
                   /\ generate_try_from(value_object).tag = "ok"
                   /\ generate_from_str(value_object).tag = "ok"
                   /\ outcome.val = generate_serde(value_object).val
                                    \o generate_display(value_object).val
                                    \o generate_try_from(value_object).val
                                    \o generate_from_str(value_object).val
                   /\ outcome.err = <<>>
                   /\ validated.tag # "err"
           /\ outcome.tag # "ok" => outcome.val = <<>>
           /\ validated.tag = "err"
                => /\ outcome = validated
                   /\ last = NoGenerator
                   /\ locals = <<EmptyTokens, EmptyTokens, EmptyTokens, EmptyTokens>>
           /\ last.out.tag \in {"err", "panic"} => outcome = last.out

C6_Witness ==
    /\ pc = "done"
    /\ outcome.tag = "err"
    /\ last.gen = "try_from"
    /\ display_token # EmptyTokens

(* C7: every failure is a returned error value: for every descriptor and  *)
(* options, whatever the serde_crate string, the expansion ends with the  *)
(* units, the string used verbatim, or with an Err.                        *)
C7_Claim ==
    pc = "done"
        => /\ outcome.tag \in {"ok", "err"}
           /\ (outcome.tag = "ok" /\ value_object.attributes.serde_crate # None)
                => \A i \in 1..Len(outcome.val) :
                       TraitName(outcome.val[i]) \in {"Deserialize", "Serialize"}
                           => outcome.val[i].crate = value_object.attributes.serde_crate[1]

(* C8: two expansions of identical declarations return identical          *)
(* outcomes, whatever was expanded before or between them.                 *)
C8_Deterministic ==
    \A i, j \in 1..Len(outputs) :
        decls[i] = decls[j] => outputs[i] = outputs[j]

C8_Witness ==
    /\ Len(outputs) = MaxDecls
    /\ decls[1] = decls[MaxDecls]
    /\ decls[1] # decls[2]
    /\ outputs[1].tag = "ok"
    /\ outputs[1].val # <<>>
    /\ outputs[2].tag # "ok"

(* C9: for an eligible descriptor, named or unnamed, the display impl and *)
(* the encode impl read the sole declared field of the wrapper.            *)
C9_Claim ==
    (call.out # "none" /\ call.trait[Len(call.trait)] \in {"Display", "Serialize"}
                       /\ Eligible(decls[call.decl]))
        => /\ call.out = "delegated"
           /\ call.member =
                LET f == decls[call.decl].struct_internals.list[1] IN
                IF f.name = None THEN <<IndexName(1)>> ELSE f.name

(* C10: run on a descriptor that is not a single-field struct, a          *)
(* generator whose capability is enabled returns a failure and no unit,   *)
(* and one whose flag is explicitly false returns no unit and no error.    *)
GeneratorFlag(v, gen) ==
    IF gen = "serde" THEN v.attributes.serde_derive
    ELSE IF gen = "display" THEN v.attributes.display_derive
    ELSE IF gen = "try_from" THEN v.attributes.try_from_derive
    ELSE v.attributes.from_str_derive

C10_Claim ==
    (last.gen # "none" /\ ~SingleFieldStruct(value_object))
        => LET flag == GeneratorFlag(value_object, last.gen) IN
           /\ (flag = Some(TRUE) \/ (flag = None /\ last.gen # "from_str"))
                => (last.out.tag # "ok" /\ last.out.val = EmptyTokens)
           /\ flag = Some(FALSE) => last.out = Ok(EmptyTokens)

====
